---- MODULE Spec2Model ----
(***************************************************************************)
(* Model of client/src/App.js: the route request handler getRoute, the     *)
(* hazard input handlers (window.reportSeverity, the pm:create listener),  *)
(* the intersection check checkRouteForFloods and the detour computation.  *)
(*                                                                         *)
(* Coordinates live on a small integer grid whose unit is one kilometre.   *)
(* A display coordinate is <<lat, lng>>, a geometry coordinate is          *)
(* <<lng, lat>>; the conversions of the code are modelled as swaps.        *)
(* A nullable value of the code is a sequence of length 0 (null) or 1.     *)
(***************************************************************************)
EXTENDS Integers, Sequences, FiniteSets, TLC

\* ---------------------------------------------------------------- bounds
MaxCalls == 2
MaxReports == 1
MaxDrawn == 2

\* ------------------------------------------------------ program constants
\* turf.buffer(point, 0.1, kilometers): radius BufferNum / BufferDen km
BufferNum == 1
BufferDen == 10
\* detourPoint[k] + 0.01: the offset in hundredths of a degree
DetourOffsetHundredths == 1

None == <<>>
Some(x) == <<x>>

\* -------------------------------------------------------------- inputs
\* Text the user types in the two inputs (both start empty).
StartTexts == {"Origin"}
EndTexts == {"Dest"}

\* What the geocoding service answers for an address: data[0].lat, data[0].lon
GeoAnswer(address) ==
    IF address = "Origin" THEN [lat |-> 1, lon |-> 0] ELSE [lat |-> 1, lon |-> 5]

\* Routes the routing service can answer for the primary request and for the
\* two detour requests, in the service's order <<lng, lat>>.
RouteDirect == << <<0, 1>>, <<5, 1>> >>
RouteNorth == << <<0, 1>>, <<0, 3>>, <<5, 3>>, <<5, 1>> >>
Routes == {RouteDirect, RouteNorth}
LegRoutes == << << <<0, 1>>, <<2, 2>> >>,
                << <<2, 2>>, <<3, 3>>, <<5, 1>> >> >>

\* Points the user can click and report (severity, lat, lng).
ReportHigh == [severity |-> "High", lat |-> 1, lng |-> 2]
ReportLow == [severity |-> "Low", lat |-> 2, lng |-> 0]
ReportInputs == {ReportHigh, ReportLow}

\* Shapes the user can draw: e.shape and e.layer.getLatLngs(), rings of
\* <<lat, lng>>.  The handler stores whatever the drawing library hands over.
AreaMid == [type |-> "rectangle",
            latlngs |-> << << <<0, 2>>, <<2, 2>>, <<2, 3>>, <<0, 3>>, <<0, 2>> >> >>]
AreaDegenerate == [type |-> "polygon",
                   latlngs |-> << << <<0, 4>>, <<2, 4>> >> >>]
DrawInputs == {AreaMid, AreaDegenerate}

\* ------------------------------------------------------------ geometry
\* coord => [coord[1], coord[0]]
Swap(coord) == <<coord[2], coord[1]>>

\* coords.map(coord => [coord[1], coord[0]])
MapSwap(coords) == [k \in DOMAIN coords |-> Swap(coords[k])]

Dot(a, b, p) == (p[1] - a[1]) * (b[1] - a[1]) + (p[2] - a[2]) * (b[2] - a[2])

Cross(a, b, p) == (b[1] - a[1]) * (p[2] - a[2]) - (b[2] - a[2]) * (p[1] - a[1])

Dist2(a, b) == Dot(a, b, b)

Sign(x) == IF x > 0 THEN 1 ELSE IF x < 0 THEN -1 ELSE 0

Min2(x, y) == IF x < y THEN x ELSE y

Max2(x, y) == IF x > y THEN x ELSE y

\* p is collinear with a-b: is it inside the box of a-b
InBox(a, b, p) ==
    /\ Min2(a[1], b[1]) <= p[1] /\ p[1] <= Max2(a[1], b[1])
    /\ Min2(a[2], b[2]) <= p[2] /\ p[2] <= Max2(a[2], b[2])

SegmentsIntersect(a, b, c, d) ==
    LET o1 == Sign(Cross(a, b, c))
        o2 == Sign(Cross(a, b, d))
        o3 == Sign(Cross(c, d, a))
        o4 == Sign(Cross(c, d, b))
    IN  \/ (o1 # o2 /\ o3 # o4)
        \/ (o1 = 0 /\ InBox(a, b, c))
        \/ (o2 = 0 /\ InBox(a, b, d))
        \/ (o3 = 0 /\ InBox(c, d, a))
        \/ (o4 = 0 /\ InBox(c, d, b))

\* Squared distance from p to the segment a-b, as a fraction n / d.
SegDist2(p, a, b) ==
    LET len2 == Dist2(a, b)
        t == Dot(a, b, p)
    IN  IF len2 = 0 \/ t <= 0 THEN [n |-> Dist2(a, p), d |-> 1]
        ELSE IF t >= len2 THEN [n |-> Dist2(b, p), d |-> 1]
        ELSE [n |-> Cross(a, b, p) * Cross(a, b, p), d |-> len2]

\* x < y on fractions; Infinity is 1 / 0
Infinity == [n |-> 1, d |-> 0]

RatLess(x, y) == x.n * y.d < y.n * x.d

Segments(line) == 1 .. (Len(line) - 1)

\* crossing-number test, the boundary is handled by SegmentsIntersect
PointInRing(p, ring) ==
    LET crossing(k) ==
            LET a == ring[k]
                b == ring[k + 1]
            IN  /\ (a[2] > p[2]) # (b[2] > p[2])
                /\ \/ (b[2] > a[2] /\ Cross(a, b, p) > 0)
                   \/ (b[2] < a[2] /\ Cross(a, b, p) < 0)
    IN  Cardinality({k \in Segments(ring) : crossing(k)}) % 2 = 1

\* turf.polygon(rings) throws unless every ring has 4 or more positions and
\* ends where it starts
PolygonThrows(rings) ==
    \E r \in DOMAIN rings :
        \/ Len(rings[r]) < 4
        \/ rings[r][1] # rings[r][Len(rings[r])]

\* turf.lineString(coords) throws for fewer than 2 positions
LineStringThrows(coords) == Len(coords) < 2

\* turf.booleanIntersects(line, polygon): a vertex of the line lies in the
\* polygon (outer ring minus holes), or the line meets a ring
IntersectsPolygon(line, rings) ==
    \/ \E v \in DOMAIN line :
          /\ PointInRing(line[v], rings[1])
          /\ \A h \in 2 .. Len(rings) : ~PointInRing(line[v], rings[h])
    \/ \E s \in Segments(line), r \in DOMAIN rings :
          \E e \in Segments(rings[r]) :
              SegmentsIntersect(line[s], line[s + 1], rings[r][e], rings[r][e + 1])

\* turf.booleanIntersects(line, turf.buffer(point, 0.1 km)): the line passes
\* within the buffer radius of the point
IntersectsBuffer(line, p) ==
    \E s \in Segments(line) :
        LET q == SegDist2(p, line[s], line[s + 1])
        IN  q.n * BufferDen * BufferDen <= q.d * BufferNum * BufferNum

\* ------------------------------------------------- checkRouteForFloods
IsArea(item) == item.type = "rectangle" \/ item.type = "polygon"

\* item.latlngs.map(ring => ring.map(coord => [coord[1], coord[0]]))
RingsOf(item) == [r \in DOMAIN item.latlngs |-> MapSwap(item.latlngs[r])]

\* turf.point([report.lng, report.lat])
PointOf(report) == <<report.lng, report.lat>>

\* the loop over drawn, from index k on: "true", "false" or "throw"
RECURSIVE CheckDrawn(_, _, _)
CheckDrawn(routeLine, drawn, k) ==
    IF k > Len(drawn) THEN "false"
    ELSE IF ~IsArea(drawn[k]) THEN CheckDrawn(routeLine, drawn, k + 1)
    ELSE IF PolygonThrows(RingsOf(drawn[k])) THEN "throw"
    ELSE IF IntersectsPolygon(routeLine, RingsOf(drawn[k])) THEN "true"
    ELSE CheckDrawn(routeLine, drawn, k + 1)

\* the loop over reports, from index k on, then the loop over drawn
RECURSIVE CheckReports(_, _, _, _)
CheckReports(routeLine, reports, drawn, k) ==
    IF k > Len(reports) THEN CheckDrawn(routeLine, drawn, 1)
    ELSE IF IntersectsBuffer(routeLine, PointOf(reports[k])) THEN "true"
    ELSE CheckReports(routeLine, reports, drawn, k + 1)

\* checkRouteForFloods(routeCoords, reports, drawn): routeCoords in display
\* order; the result is "true", "false" or "throw" (an exception of turf)
CheckRouteForFloods(routeCoords, reports, drawn) ==
    IF LineStringThrows(routeCoords) THEN "throw"
    ELSE CheckReports(MapSwap(routeCoords), reports, drawn, 1)

\* ------------------------------------------- nearest flood zone selection
\* closestFloodZone: null, a turf point, or the outer ring of a polygon
NoZone == [kind |-> "none", coords |-> <<>>]

\* distance < minDistance
CloserThan(distance, minDistance) == RatLess(distance, minDistance)

\* turf.pointToLineDistance(p, turf.lineString(ring)), squared, from segment k
RECURSIVE PointToLineDistance(_, _, _)
PointToLineDistance(p, line, k) ==
    IF k >= Len(line) - 1 THEN SegDist2(p, line[k], line[k + 1])
    ELSE LET here == SegDist2(p, line[k], line[k + 1])
             rest == PointToLineDistance(p, line, k + 1)
         IN  IF RatLess(rest, here) THEN rest ELSE here

\* the loop over drawnItems, from index k on; acc is
\* [threw, minDistance, closestFloodZone]
RECURSIVE SelectDrawn(_, _, _, _)
SelectDrawn(origin, drawn, k, acc) ==
    IF k > Len(drawn) THEN acc
    ELSE IF ~IsArea(drawn[k]) THEN SelectDrawn(origin, drawn, k + 1, acc)
    ELSE IF PolygonThrows(RingsOf(drawn[k]))
         THEN [acc EXCEPT !.threw = TRUE]
    ELSE LET outer == RingsOf(drawn[k])[1]
             distance == PointToLineDistance(origin, outer, 1)
         IN  IF CloserThan(distance, acc.minDistance)
             THEN SelectDrawn(origin, drawn, k + 1,
                      [threw |-> FALSE, minDistance |-> distance,
                       closestFloodZone |-> [kind |-> "ring", coords |-> outer]])
             ELSE SelectDrawn(origin, drawn, k + 1, acc)

\* the loop over floodReports, from index k on
RECURSIVE SelectReports(_, _, _, _)
SelectReports(origin, reports, k, acc) ==
    IF k > Len(reports) THEN acc
    ELSE LET point == PointOf(reports[k])
             distance == [n |-> Dist2(origin, point), d |-> 1]
         IN  IF CloserThan(distance, acc.minDistance)
             THEN SelectReports(origin, reports, k + 1,
                      [threw |-> FALSE, minDistance |-> distance,
                       closestFloodZone |-> [kind |-> "point", coords |-> <<point>>]])
             ELSE SelectReports(origin, reports, k + 1, acc)

\* lines 151-173 of getRoute: reports first, then drawn areas
SelectClosest(startCoords, reports, drawn) ==
    LET origin == <<startCoords.lng, startCoords.lat>>
        start == [threw |-> FALSE, minDistance |-> Infinity, closestFloodZone |-> NoZone]
    IN  SelectDrawn(origin, drawn, 1, SelectReports(origin, reports, 1, start))

\* ------------------------------------------------------- detour waypoint
\* The point of segment a-b nearest to p, as the fraction <<x, y>> / den.
NearestOnSegment(p, a, b) ==
    LET len2 == Dist2(a, b)
        t == Dot(a, b, p)
    IN  IF len2 = 0 \/ t <= 0 THEN [x |-> a[1], y |-> a[2], den |-> 1]
        ELSE IF t >= len2 THEN [x |-> b[1], y |-> b[2], den |-> 1]
        ELSE [x |-> a[1] * len2 + t * (b[1] - a[1]),
              y |-> a[2] * len2 + t * (b[2] - a[2]), den |-> len2]

\* the segment of line, from k on, nearest to p (the first one on ties)
RECURSIVE NearestSegment(_, _, _)
NearestSegment(p, line, k) ==
    IF k >= Len(line) - 1 THEN k
    ELSE LET rest == NearestSegment(p, line, k + 1)
         IN  IF RatLess(SegDist2(p, line[rest], line[rest + 1]),
                        SegDist2(p, line[k], line[k + 1]))
             THEN rest ELSE k

\* turf.nearestPointOnLine(mainRouteLine, closestFloodZone).geometry.coordinates
\* closestFloodZone must be a point: turf reads it with getCoord, which throws
\* for an array of positions (the ring of a drawn area)
NearestPointOnLineThrows(zone) == zone.kind # "point"

NearestPointOnLine(line, zone) ==
    LET p == zone.coords[1]
        k == NearestSegment(p, line, 1)
    IN  NearestOnSegment(p, line[k], line[k + 1])

\* detourUrl1, detourUrl2: the two routing requests of the detour
DetourRequests(startCoords, endCoords, detourPoint) ==
    LET bypass == [anchor |-> detourPoint, offset |-> DetourOffsetHundredths]
    IN  << [from |-> Some(<<startCoords.lng, startCoords.lat>>), via |-> bypass,
            to |-> None],
           [from |-> None, via |-> bypass,
            to |-> Some(<<endCoords.lng, endCoords.lat>>)] >>

\* a merge that drops the waypoint the two legs share
CombineLegsDedup(coords1, coords2) == MapSwap(coords1 \o Tail(coords2))

\* [...data1.routes[0].geometry.coordinates, ...data2.routes[0].geometry.coordinates]
\*     .map(coord => [coord[1], coord[0]])
CombineLegs(coords1, coords2) == MapSwap(coords1 \o coords2)

\* ------------------------------------------------------------- state
VARIABLES
    start, end,            \* useState(''): the two text inputs
    route, altRoute,       \* useState(null): display routes, <<lat, lng>> lists
    startPoint, endPoint,  \* useState(null): the two markers
    floodReports,          \* useState([]): reported points
    drawnItems,            \* useState([]): drawn shapes
    showWarning,           \* useState(false)
    calls                  \* the getRoute invocations, in the order they started

vars == <<start, end, route, altRoute, startPoint, endPoint, floodReports,
          drawnItems, showWarning, calls>>

Display == <<route, altRoute, startPoint, endPoint, showWarning>>

\* a getRoute that reads the live hazard state
LiveHazards(c, live) == live

\* The hazards a running getRoute reads: floodReports and drawnItems are the
\* constants of the render that created this getRoute, not the live state.
ClosureHazards(c, live) == [reports |-> c.reports, drawn |-> c.drawn]

\* The locals of one getRoute invocation, suspended at its first await.
NewCall ==
    [pc |-> "geo1", start |-> start, end |-> end,
     reports |-> floodReports, drawn |-> drawnItems,
     startCoords |-> None, endCoords |-> None, routeCoordinates |-> None,
     flagged |-> "none", closest |-> NoZone, changed |-> FALSE,
     legs |-> <<"unsent", "unsent">>, legReq |-> <<>>,
     legData |-> <<None, None>>, outcome |-> "",
     alone |-> \A j \in DOMAIN calls : calls[j].pc = "done"]

Done(c, outcome) == [c EXCEPT !.pc = "done", !.outcome = outcome]

\* a catch block that withdraws the warning
WarningClearedOnCatch(warning) == FALSE

\* catch (error): console.error and alert, no state is set
WarningAfterCatch(warning) == warning

\* the second request held back until the first has answered
LegsIssuedInTurn == <<"pending", "unsent">>

\* Promise.all([fetch(detourUrl1), fetch(detourUrl2)]): both requests are sent
LegsIssued == <<"pending", "pending">>

\* data.routes && data.routes.length > 0, for both answers
BothHaveRoutes(data1, data2) == data1.routes # <<>> /\ data2.routes # <<>>

\* What response.json() can give: a parse failure, or an answer with routes
NoAnswers == {[ok |-> FALSE, routes |-> <<>>], [ok |-> TRUE, routes |-> <<>>]}

JsonAnswers == NoAnswers \cup {[ok |-> TRUE, routes |-> <<r>>] : r \in Routes}

LegAnswers(k) == NoAnswers \cup {[ok |-> TRUE, routes |-> <<LegRoutes[k]>>]}

Init ==
    /\ start = "" /\ end = ""
    /\ route = None /\ altRoute = None
    /\ startPoint = None /\ endPoint = None
    /\ floodReports = <<>> /\ drawnItems = <<>>
    /\ showWarning = FALSE
    /\ calls = <<>>

\* ------------------------------------------------------------ handlers
\* onChange of the start input
SetStart(text) ==
    /\ text # start
    /\ start' = text
    /\ UNCHANGED <<end, route, altRoute, startPoint, endPoint, floodReports,
                   drawnItems, showWarning, calls>>

\* onChange of the destination input
SetEnd(text) ==
    /\ text # end
    /\ end' = text
    /\ UNCHANGED <<start, route, altRoute, startPoint, endPoint, floodReports,
                   drawnItems, showWarning, calls>>

\* window.reportSeverity(severity, lat, lng)
ReportSeverity(report) ==
    /\ Len(floodReports) < MaxReports
    /\ floodReports' = Append(floodReports, report)
    /\ UNCHANGED <<start, end, route, altRoute, startPoint, endPoint,
                   drawnItems, showWarning, calls>>

\* the pm:create listener
PmCreate(item) ==
    /\ Len(drawnItems) < MaxDrawn
    /\ drawnItems' = Append(drawnItems, item)
    /\ UNCHANGED <<start, end, route, altRoute, startPoint, endPoint,
                   floodReports, showWarning, calls>>

\* a getRoute whose reset leaves the warning as it is
GetRouteKeepsWarning ==
    /\ Len(calls) < MaxCalls
    /\ route' = None
    /\ altRoute' = None
    /\ startPoint' = None
    /\ endPoint' = None
    /\ calls' = Append(calls, IF start = "" \/ end = ""
                              THEN Done(NewCall, "noInput")
                              ELSE NewCall)
    /\ UNCHANGED <<start, end, floodReports, drawnItems, showWarning>>

\* getRoute, up to its first await (or its early return)
GetRoute ==
    /\ Len(calls) < MaxCalls
    /\ route' = None
    /\ altRoute' = None
    /\ startPoint' = None
    /\ endPoint' = None
    /\ showWarning' = FALSE
    /\ calls' = Append(calls, IF start = "" \/ end = ""
                              THEN Done(NewCall, "noInput")
                              ELSE NewCall)
    /\ UNCHANGED <<start, end, floodReports, drawnItems>>

\* await geocodeAddress(start) resolves: coordinates, or null
GeocodeStart(i, found) ==
    /\ calls[i].pc = "geo1"
    /\ LET ans == GeoAnswer(calls[i].start)
           res == IF found THEN Some([lat |-> ans.lat, lng |-> ans.lon]) ELSE None
       IN  calls' = [calls EXCEPT ![i].pc = "geo2", ![i].startCoords = res]
    /\ UNCHANGED <<start, end, route, altRoute, startPoint, endPoint,
                   floodReports, drawnItems, showWarning>>

\* await geocodeAddress(end) resolves; then the null check and the markers
GeocodeEnd(i, found) ==
    /\ calls[i].pc = "geo2"
    /\ LET ans == GeoAnswer(calls[i].end)
           res == IF found THEN Some([lat |-> ans.lat, lng |-> ans.lon]) ELSE None
           c == [calls[i] EXCEPT !.endCoords = res]
       IN  IF c.startCoords = None \/ c.endCoords = None
           THEN /\ calls' = [calls EXCEPT ![i] = Done(c, "noGeocode")]
                /\ UNCHANGED <<startPoint, endPoint>>
           ELSE /\ calls' = [calls EXCEPT ![i] = [c EXCEPT !.pc = "fetch"]]
                /\ startPoint' = c.startCoords
                /\ endPoint' = c.endCoords
    /\ UNCHANGED <<start, end, route, altRoute, floodReports, drawnItems,
                   showWarning>>

\* await fetch(url) of the primary route settles
RouteFetch(i, ok) ==
    /\ calls[i].pc = "fetch"
    /\ calls' = [calls EXCEPT ![i] = IF ok THEN [@ EXCEPT !.pc = "json"]
                                      ELSE Done(@, "caught")]
    /\ showWarning' = IF ok THEN showWarning ELSE WarningAfterCatch(showWarning)
    /\ UNCHANGED <<start, end, route, altRoute, startPoint, endPoint,
                   floodReports, drawnItems>>

\* The synchronous block after the primary answer has a route: the check, the
\* selection, the detour waypoint and the two requests.  routeCoordinates is in
\* display order; live is the current floodReports and drawnItems.
Evaluate(c, routeCoordinates, live) ==
    LET h == ClosureHazards(c, live)
        flagged == CheckRouteForFloods(routeCoordinates, h.reports, h.drawn)
        sel == SelectClosest(c.startCoords[1], h.reports, h.drawn)
        zone == sel.closestFloodZone
        c1 == [c EXCEPT !.routeCoordinates = Some(routeCoordinates),
                        !.flagged = flagged,
                        !.changed = (live # [reports |-> c.reports, drawn |-> c.drawn])]
    IN  IF flagged = "throw" THEN Done(c1, "caught")
        ELSE IF flagged = "false" THEN Done(c1, "clear")
        ELSE IF sel.threw THEN Done(c1, "caught")
        ELSE IF zone.kind = "none" THEN Done([c1 EXCEPT !.closest = zone], "noZone")
        ELSE IF NearestPointOnLineThrows(zone)
             THEN Done([c1 EXCEPT !.closest = zone], "caught")
        ELSE [c1 EXCEPT !.closest = zone,
                        !.pc = "legsFetch",
                        !.legs = LegsIssued,
                        !.legReq = DetourRequests(c.startCoords[1], c.endCoords[1],
                                       NearestPointOnLine(MapSwap(routeCoordinates), zone))]

\* await response.json() of the primary route settles
RouteJson(i, data) ==
    /\ calls[i].pc = "json"
    /\ IF ~data.ok
       THEN /\ calls' = [calls EXCEPT ![i] = Done(@, "caught")]
            /\ showWarning' = WarningAfterCatch(showWarning)
            /\ UNCHANGED <<route, altRoute>>
       ELSE IF data.routes = <<>>
       THEN /\ calls' = [calls EXCEPT ![i] = Done(@, "noRoute")]
            /\ UNCHANGED <<route, showWarning, altRoute>>
       ELSE LET routeCoordinates == MapSwap(data.routes[1])
                c == Evaluate(calls[i], routeCoordinates,
                              [reports |-> floodReports, drawn |-> drawnItems])
            IN  /\ calls' = [calls EXCEPT ![i] = c]
                /\ route' = Some(routeCoordinates)
                /\ showWarning' = IF c.flagged = "false" THEN FALSE
                                  ELSE IF c.flagged = "throw"
                                  THEN WarningAfterCatch(showWarning)
                                  ELSE IF c.outcome = "caught"
                                  THEN WarningAfterCatch(TRUE)
                                  ELSE TRUE
                /\ altRoute' = IF c.flagged = "false" THEN None ELSE altRoute
    /\ UNCHANGED <<start, end, startPoint, endPoint, floodReports, drawnItems>>

\* fetch(detourUrl k) settles while Promise.all of the two fetches is awaited
LegFetch(i, k, ok) ==
    /\ calls[i].pc = "legsFetch"
    /\ calls[i].legs[k] = "pending"
    /\ LET c == calls[i]
           other == 3 - k
       IN  calls' = [calls EXCEPT ![i] =
               IF ~ok THEN Done(c, "caught")
               ELSE IF c.legs[other] = "fetched"
               THEN [c EXCEPT !.pc = "legsJson", !.legs = <<"parsing", "parsing">>]
               ELSE [c EXCEPT !.legs[k] = "fetched"]]
    /\ showWarning' = IF ok THEN showWarning ELSE WarningAfterCatch(showWarning)
    /\ UNCHANGED <<start, end, route, altRoute, startPoint, endPoint,
                   floodReports, drawnItems>>

\* response k .json() settles while Promise.all of the two is awaited; with
\* both answers, the merge
LegJson(i, k, data) ==
    /\ calls[i].pc = "legsJson"
    /\ calls[i].legs[k] = "parsing"
    /\ LET c == [calls[i] EXCEPT !.legs[k] = "parsed", !.legData[k] = Some(data)]
           other == 3 - k
       IN  IF ~data.ok
           THEN /\ calls' = [calls EXCEPT ![i] = Done(@, "caught")]
                /\ showWarning' = WarningAfterCatch(showWarning)
                /\ UNCHANGED altRoute
           ELSE IF c.legs[other] # "parsed"
           THEN /\ calls' = [calls EXCEPT ![i] = c]
                /\ UNCHANGED <<altRoute, showWarning>>
           ELSE IF BothHaveRoutes(c.legData[1][1], c.legData[2][1])
           THEN /\ calls' = [calls EXCEPT ![i] = Done(c, "detour")]
                /\ altRoute' = Some(CombineLegs(c.legData[1][1].routes[1],
                                                c.legData[2][1].routes[1]))
                /\ UNCHANGED showWarning
           ELSE /\ calls' = [calls EXCEPT ![i] = Done(c, "noDetour")]
                /\ UNCHANGED <<altRoute, showWarning>>
    /\ UNCHANGED <<start, end, route, startPoint, endPoint, floodReports,
                   drawnItems>>

Next ==
    \/ \E text \in StartTexts : SetStart(text)
    \/ \E text \in EndTexts : SetEnd(text)
    \/ \E report \in ReportInputs : ReportSeverity(report)
    \/ \E item \in DrawInputs : PmCreate(item)
    \/ GetRoute
    \/ \E i \in DOMAIN calls, found \in BOOLEAN : GeocodeStart(i, found)
    \/ \E i \in DOMAIN calls, found \in BOOLEAN : GeocodeEnd(i, found)
    \/ \E i \in DOMAIN calls, ok \in BOOLEAN : RouteFetch(i, ok)
    \/ \E i \in DOMAIN calls, data \in JsonAnswers : RouteJson(i, data)
    \/ \E i \in DOMAIN calls, k \in 1 .. 2, ok \in BOOLEAN : LegFetch(i, k, ok)
    \/ \E i \in DOMAIN calls, k \in 1 .. 2 : \E data \in LegAnswers(k) : LegJson(i, k, data)

Spec == Init /\ [][Next]_vars

\* =============================================================== claims
Evaluated(c) == c.routeCoordinates # None

LegsUnsent == <<"unsent", "unsent">>

Origin(c) == <<c.startCoords[1].lng, c.startCoords[1].lat>>

Destination(c) == <<c.endCoords[1].lng, c.endCoords[1].lat>>

\* a drawn area with fewer than 3 ring points
Degenerate(item) ==
    IsArea(item) /\ \E r \in DOMAIN item.latlngs : Len(item.latlngs[r]) < 3

NotDegenerate(item) == ~Degenerate(item)

WellFormed(item) == IsArea(item) /\ ~PolygonThrows(RingsOf(item))

\* some hazard geometry of the set meets the route
AnyHazardIntersects(routeCoords, reports, drawn) ==
    LET line == MapSwap(routeCoords)
    IN  \/ \E k \in DOMAIN reports : IntersectsBuffer(line, PointOf(reports[k]))
        \/ \E k \in DOMAIN drawn :
              WellFormed(drawn[k]) /\ IntersectsPolygon(line, RingsOf(drawn[k]))

Reverse(seq) == [k \in DOMAIN seq |-> seq[Len(seq) + 1 - k]]

\* the hazards as the selection meets them: reports, then areas, in list order
HazardZones(reports, drawn) ==
    LET areas == SelectSeq(drawn, IsArea)
    IN  [k \in DOMAIN reports |-> [kind |-> "point", coords |-> <<PointOf(reports[k])>>]]
        \o [k \in DOMAIN areas |-> [kind |-> "ring", coords |-> RingsOf(areas[k])[1]]]

ZoneDistance(origin, zone) ==
    IF zone.kind = "point" THEN [n |-> Dist2(origin, zone.coords[1]), d |-> 1]
    ELSE PointToLineDistance(origin, zone.coords, 1)

\* the first zone at the minimum distance from origin
NearestZone(origin, zones) ==
    IF zones = <<>> THEN NoZone
    ELSE zones[CHOOSE k \in DOMAIN zones :
                  /\ \A j \in DOMAIN zones :
                        ~RatLess(ZoneDistance(origin, zones[j]), ZoneDistance(origin, zones[k]))
                  /\ \A j \in 1 .. (k - 1) :
                        RatLess(ZoneDistance(origin, zones[k]), ZoneDistance(origin, zones[j]))]

\* C1: once a later getRoute has started, no step of an earlier invocation
\* changes route, altRoute, startPoint, endPoint or showWarning.
C1_StaleResultsDiscarded ==
    [][\A i \in DOMAIN calls :
          (i < Len(calls) /\ calls'[i] # calls[i]) => Display' = Display]_vars

\* the detour of c was requested and did not produce a route
DetourFailed(c) ==
    c.pc = "done" /\ c.legs # LegsUnsent /\ c.outcome \in {"caught", "noDetour"}

\* the latest evaluation, not overlapped by another one, failed its detour
C2_AfterFailure ==
    \A i \in DOMAIN calls :
        (DetourFailed(calls[i]) /\ i = Len(calls) /\ calls[i].alone)
            => /\ altRoute = None
               /\ showWarning
               /\ route = calls[i].routeCoordinates
               /\ calls[i].flagged = "true"

\* the step in which the detour of an invocation fails sets no state
C2_FailureStep ==
    \A i \in DOMAIN calls :
        (~DetourFailed(calls[i]) /\ DetourFailed(calls'[i]))
            => /\ calls[i].pc \in {"legsFetch", "legsJson"}
               /\ UNCHANGED Display

\* C2: when a detour-leg request fails (rejected fetch, unparsable answer, or
\* an answer without routes) the invocation returns and the failing step
\* sets no state; for the latest evaluation with no overlapping invocation
\* altRoute is then null, showWarning true and route its primary route.
C2_DetourFailureKeepsWarning == []C2_AfterFailure /\ [][C2_FailureStep]_vars

C2_Witness ==
    \E i \in DOMAIN calls :
        /\ DetourFailed(calls[i]) /\ i = Len(calls) /\ calls[i].alone
        /\ calls[i].outcome = "caught"
        /\ showWarning /\ altRoute = None

\* C3: checkRouteForFloods returns true exactly when some hazard of the set
\* meets the route, false otherwise, whatever the order of the hazards.
C3_CheckIsAnyIntersection ==
    \A i \in DOMAIN calls :
        LET c == calls[i]
        IN  Evaluated(c) =>
              /\ c.flagged = IF AnyHazardIntersects(c.routeCoordinates[1], c.reports, c.drawn)
                             THEN "true" ELSE "false"
              /\ c.flagged = CheckRouteForFloods(c.routeCoordinates[1],
                                 Reverse(c.reports), Reverse(c.drawn))

\* C4: the intersection check and the nearest-hazard selection of an
\* invocation both use the reports and drawn areas that existed when getRoute
\* was invoked, also when hazards were added before its routing answer came.
C4_SnapshotAtInvocation ==
    \A i \in DOMAIN calls :
        LET c == calls[i]
            sel == SelectClosest(c.startCoords[1], c.reports, c.drawn)
        IN  Evaluated(c) =>
              /\ c.flagged = CheckRouteForFloods(c.routeCoordinates[1], c.reports, c.drawn)
              /\ c.closest = IF c.flagged = "true" /\ ~sel.threw
                             THEN sel.closestFloodZone ELSE NoZone

C4_Witness ==
    \E i \in DOMAIN calls :
        /\ Evaluated(calls[i])
        /\ calls[i].changed
        /\ calls[i].flagged = "false"
        /\ CheckRouteForFloods(calls[i].routeCoordinates[1], floodReports, drawnItems) = "true"

\* C5: with a degenerate area and an intersecting well-formed hazard in the
\* set, the check still reports true, as it does without the degenerate area.
C5_DegenerateAreaSkipped ==
    \A i \in DOMAIN calls :
        LET c == calls[i]
        IN  (/\ Evaluated(c)
             /\ \E k \in DOMAIN c.drawn : Degenerate(c.drawn[k])
             /\ AnyHazardIntersects(c.routeCoordinates[1], c.reports, c.drawn))
            => /\ c.flagged = "true"
               /\ c.flagged = CheckRouteForFloods(c.routeCoordinates[1], c.reports,
                                  SelectSeq(c.drawn, NotDegenerate))

\* C6: the two detour requests are sent together, leg A from the origin to
\* the bypass waypoint and leg B from the bypass waypoint to the destination;
\* the answers are parsed only once both fetches have answered, and the merge
\* runs only once both answers are parsed.
C6_LegsConcurrent ==
    \A i \in DOMAIN calls :
        LET c == calls[i]
        IN  /\ (c.legs[1] = "unsent") <=> (c.legs[2] = "unsent")
            /\ c.pc = "legsFetch" =>
                  /\ \A k \in 1 .. 2 : c.legs[k] \in {"pending", "fetched"}
                  /\ \E k \in 1 .. 2 : c.legs[k] = "pending"
            /\ c.pc = "legsJson" => \A k \in 1 .. 2 : c.legs[k] \in {"parsing", "parsed"}
            /\ c.outcome \in {"detour", "noDetour"} => c.legs = <<"parsed", "parsed">>
            /\ c.legs # LegsUnsent =>
                  /\ c.legReq[1].from = Some(Origin(c))
                  /\ c.legReq[1].via = c.legReq[2].via
                  /\ c.legReq[2].to = Some(Destination(c))

C6_Witness ==
    \E i \in DOMAIN calls :
        calls[i].pc = "legsFetch" /\ calls[i].legs = <<"pending", "fetched">>

\* C7: when both detour answers carry a route, the step that ends the
\* invocation sets altRoute to leg A's coordinates followed by leg B's, each
\* swapped to <<lat, lng>>: its length is the sum of the two lengths.
C7_MergeKeepsEveryPoint ==
    [][\A i \in DOMAIN calls :
          (calls[i].pc = "legsJson" /\ calls'[i].pc = "done"
             /\ calls'[i].legs = <<"parsed", "parsed">>
             /\ calls'[i].legData[1][1].routes # <<>>
             /\ calls'[i].legData[2][1].routes # <<>>)
          => LET a == calls'[i].legData[1][1].routes[1]
                 b == calls'[i].legData[2][1].routes[1]
             IN  /\ calls'[i].outcome = "detour"
                 /\ altRoute' # None
                 /\ Len(altRoute'[1]) = Len(a) + Len(b)
                 /\ \A k \in DOMAIN a : altRoute'[1][k] = <<a[k][2], a[k][1]>>
                 /\ \A k \in DOMAIN b : altRoute'[1][Len(a) + k] = <<b[k][2], b[k][1]>>]_vars

C7_Witness ==
    \E i \in DOMAIN calls :
        /\ calls[i].outcome = "detour"
        /\ altRoute # None
        /\ Len(altRoute[1]) = Len(LegRoutes[1]) + Len(LegRoutes[2])

\* C8: whenever the route is flagged, the selected hazard is the first one,
\* reports before areas in list order, at the minimum distance from the
\* origin; with nothing selected no detour is requested.
C8_NearestHazardSelected ==
    \A i \in DOMAIN calls :
        LET c == calls[i]
        IN  c.flagged = "true" =>
              /\ c.closest = NearestZone(Origin(c), HazardZones(c.reports, c.drawn))
              /\ c.closest = NoZone => c.legs = LegsUnsent

\* C9: showWarning implies a non-null route, in every reachable state.
C9_WarningImpliesRoute == showWarning => route # None

C9_Witness ==
    /\ showWarning /\ route # None
    /\ Len(calls) = 2 /\ ~calls[2].alone
    /\ \E i \in DOMAIN calls : calls[i].outcome = "caught" /\ Evaluated(calls[i])

\* C10: a non-null altRoute implies showWarning and a non-null route, in
\* every reachable state.
C10_AltOnlyWithWarning == altRoute # None => (showWarning /\ route # None)

====
